---- MODULE Spec2Model ----
(***************************************************************************)
(* The request authentication and replay-protection layer of the DarkAI    *)
(* backend: AuthMiddleware.dispatch and SecurityMiddleware.dispatch        *)
(* (app/auth/middleware.py), the replay cache AsyncRedisClient             *)
(* (app/utils/redis_client.py), the token codec and HMAC verifier          *)
(* SecurityUtils (app/utils/security.py) and client registration and login *)
(* (app/routes/auth.py).                                                   *)
(*                                                                         *)
(* Time is counted in ticks, Res ticks to the second, so that the          *)
(* truncations to whole seconds the code performs (int(time.time()), the   *)
(* NumericDate of a JWT) are visible.  Strings the code takes apart are    *)
(* sequences of their pieces: a path is the sequence of its "/" and        *)
(* segment pieces ("/auth/login" is <<"/", "auth", "/", "login">>, the     *)
(* empty path is <<>>), an Authorization value is its first word and the   *)
(* rest of what split(" ") returns.  An absent header is <<>>, a present   *)
(* one is <<value>>.                                                       *)
(***************************************************************************)
EXTENDS Integers, Sequences, FiniteSets, TLC

VARIABLES
    clock,      \* current time, in ticks
    nticks,     \* how many times the clock has advanced
    connected,  \* AsyncRedisClient.connected
    redis,      \* keys of the shared store: [key, hasTtl, expireAt]
    cache,      \* AsyncRedisClient.cache, the in-process dict (its keys)
    clients,    \* the clients table, in id order
    access_tokens, \* the access_tokens table: [jti, revoked]
    tokens,     \* create_access_token calls so far: [tok, at, ttl]
    verified,   \* direct verify_token calls so far: [tok, at, result]
    calls,      \* direct verify_hmac_signature calls so far: [signed, given, result]
    responses,  \* what login_client and get_profile answered so far
    req         \* the requests: position in dispatch, inputs, response

vars ==
    <<clock, nticks, connected, redis, cache, clients, access_tokens, tokens, verified,
      calls, responses, req>>

---------------------------------------------------------------------------
(* Bounds of the model *)

Res == 2
MaxTicks == 2
MaxGateTicks == 1
NumReq == 2
MaxClients == 2
MaxTokens == 1
MaxVerify == 2
MaxLen == 1

(* Constants of the program *)

ReplayTtl == 60
SkewWindow == 30
DefaultExpireMinutes == 15
LoginExpireHours == 1
ExpiresIn == 3600

SECRET_KEY == "your-secret-key-change-this"
OtherKey == "not-the-server-key"
DemoSecret == <<"demo-secret">>

---------------------------------------------------------------------------
(* Time *)

\* int(time.time()), timegm(dt.utctimetuple()): the whole seconds of a time
Sec(t) == t \div Res

\* the difference taken with its sign
NoAbs(x) == x

Abs(x) == IF x < 0 THEN -x ELSE x

\* how far the clock may jump: to either side of the end of a reservation,
\* and by the life of a login token
RaceDeltas == {1, ReplayTtl * Res - 1}
GateDeltas == {1, LoginExpireHours * 3600 * Res}

---------------------------------------------------------------------------
(* Paths *)

StartsWith(s, p) == Len(p) <= Len(s) /\ SubSeq(s, 1, Len(p)) = p

excluded_paths ==
    << <<"/">>, <<"/", "docs">>, <<"/", "redoc">>, <<"/", "openapi.json">>,
       <<"/", "health">>, <<"/", "auth", "/", "register">>,
       <<"/", "auth", "/", "login">> >>

\* the same test over a list that lacks "/" and "/health"
IsExcludedNarrow(path) ==
    \E i \in 3..Len(excluded_paths) :
        i # 5 /\ StartsWith(path, excluded_paths[i])

\* any(path.startswith(excluded) for excluded in self.excluded_paths)
IsExcluded(path) ==
    \E i \in 1..Len(excluded_paths) : StartsWith(path, excluded_paths[i])

EmptyPath == <<>>
RootPath == <<"/">>
HealthPath == <<"/", "health">>
LoginPath == <<"/", "auth", "/", "login">>
ProfilePath == <<"/", "auth", "/", "profile">>
AiPath == <<"/", "api", "/", "ai", "/", "standard">>

\* request.url.path: empty (request target "*") or starting with "/"
Paths == {EmptyPath, RootPath, HealthPath, LoginPath, ProfilePath, AiPath}

---------------------------------------------------------------------------
(* Token codec: SecurityUtils.create_access_token / verify_token.          *)
(* An encoded token is the record of what it carries: its claims, the key  *)
(* it was signed with and whether it is a well-formed JWT at all.          *)

Jwt(key, sub, scope, exp, iat, jti) ==
    [wf |-> TRUE, text |-> "jwt", key |-> key, sub |-> sub, scope |-> scope,
     exp |-> exp, iat |-> iat, jti |-> jti]

\* a string that is no JWT: "garbage", or the empty string
NotJwt(text) ==
    [wf |-> FALSE, text |-> text, key |-> "", sub |-> "", scope |-> <<>>,
     exp |-> 0, iat |-> 0, jti |-> 0]

\* expires_delta is <<>> (None) or <<seconds>>; t_exp and t_iat are the two
\* readings of datetime.utcnow(); jwt.encode keeps the whole seconds of both
CreateAccessToken(data, secret_key, expires_delta, t_exp, t_iat, jti) ==
    LET expire == IF expires_delta # <<>> /\ expires_delta[1] # 0
                  THEN Sec(t_exp) + expires_delta[1]
                  ELSE Sec(t_exp) + DefaultExpireMinutes * 60
    IN  Jwt(secret_key, data.sub, data.scope, expire, Sec(t_iat), jti)

\* jwt.decode(token, key, algorithms=["HS256"]): the exception it raises, or "ok"
JwtDecode(token, key, now) ==
    IF ~token.wf THEN "DecodeError"
    ELSE IF token.key # key THEN "InvalidSignatureError"
    ELSE IF token.iat * Res > now THEN "ImmatureSignatureError"
    ELSE IF token.exp * Res <= now THEN "ExpiredSignatureError"
    ELSE "ok"

Returned(payload) ==
    [kind |-> "return", status_code |-> 0, detail |-> "", payload |-> payload]

Raised(kind, status_code, detail) ==
    [kind |-> kind, status_code |-> status_code, detail |-> detail,
     payload |-> NotJwt("")]

\* verify_token with the signature check left out
VerifyTokenUnsigned(token, secret_key, now) ==
    IF token.wf /\ token.exp * Res > now THEN Returned(token)
    ELSE Raised("HTTPException", 401, "Token has expired")

\* the jwt module has ExpiredSignatureError and no JWTError: evaluating the
\* second except clause raises AttributeError in place of the 401
VerifyToken(token, secret_key, now) ==
    LET d == JwtDecode(token, secret_key, now)
    IN  CASE d = "ok" -> Returned(token)
          [] d = "ExpiredSignatureError" ->
                Raised("HTTPException", 401, "Token has expired")
          [] OTHER -> Raised("AttributeError", 0, "module 'jwt' has no attribute 'JWTError'")

---------------------------------------------------------------------------
(* HMAC verifier: SecurityUtils.verify_hmac_signature.  The digest of a    *)
(* message under a key is the pair of both: equal digests, equal inputs.   *)

Sha256(body) == <<"sha256", body>>

\* the newline and the zero byte as pieces of a text
NL == "\n"
NUL == "NUL"

\* the string to sign without the body hash
StringToSignNoBody(method, path, timestamp, body_hash) ==
    method \o <<NL>> \o path \o <<NL>> \o timestamp \o <<NL>>

\* f"{method}\n{path}\n{timestamp}\n{body_hash}"
StringToSign(method, path, timestamp, body_hash) ==
    method \o <<NL>> \o path \o <<NL>> \o timestamp \o <<NL>> \o body_hash

\* HMAC block size of SHA-256, a piece counted as a byte
BlockSize == 64

RECURSIVE StripNul(_)
StripNul(key) ==
    IF key # <<>> /\ key[Len(key)] = NUL
    THEN StripNul(SubSeq(key, 1, Len(key) - 1))
    ELSE key

\* hmac.new(key, ...): a key longer than the block is replaced by its
\* digest, and the key is then filled up to the block with zero bytes, so
\* keys that differ in trailing zero bytes only are one key
HmacKey(key) ==
    IF Len(key) > BlockSize THEN <<"sha256">> \o key ELSE StripNul(key)

\* hmac.new(secret.encode(), msg.encode(), hashlib.sha256).hexdigest()
HmacSha256(secret, msg) == [secret |-> HmacKey(secret), msg |-> msg]

VerifyHmacSignature(secret, method, path, timestamp, body_hash, signature) ==
    HmacSha256(secret, StringToSign(method, path, timestamp, body_hash)) = signature

\* an X-Signature value: the hex digest, with or without the "sha256=" prefix
SigHeader(prefixed, hex) == [prefixed |-> prefixed, hex |-> hex]

\* signature.replace("sha256=", "")
StripScheme(sig) == sig.hex

\* an X-Timestamp value: a decimal integer, or text int() rejects
TsHeader(val) == [int |-> TRUE, val |-> val]
TsNotInt == [int |-> FALSE, val |-> 0]

\* the characters of an X-Timestamp value
TsText(ts) == IF ts.int THEN <<ToString(ts.val)>> ELSE <<"soon">>

---------------------------------------------------------------------------
(* Clients: register_client and login_client *)

\* secrets.token_urlsafe: a fresh value for each client
ApiKey(id) == <<"api_key", ToString(id)>>
ClientSecret(id) == <<"client_secret", ToString(id)>>

HashPassword(password) == <<"bcrypt", password>>
VerifyPassword(plain_password, hashed_password) ==
    hashed_password = HashPassword(plain_password)

Emails == {"a@x", "b@x"}

\* the registrations tried: one leaves scopes empty, one asks for a scope
Registrations == {<<"a@x", <<>>>>, <<"b@x", <<"ai">>>>}

\* db.query(Client).filter(Client.email == email).first()
ClientsByEmail(email) == {i \in 1..Len(clients) : clients[i].email = email}

Register(email, scopes) ==
    /\ Len(clients) < MaxClients
    /\ ClientsByEmail(email) = {}
    /\ LET id == Len(clients) + 1
       IN  clients' = Append(clients,
              [id |-> id, email |-> email,
               hashed_api_key |-> HashPassword(ApiKey(id)),
               client_secret_hash |-> HashPassword(ClientSecret(id)),
               scopes |-> IF scopes # <<>> THEN scopes ELSE <<"basic">>,
               status |-> "active"])
    /\ UNCHANGED <<clock, nticks, connected, redis, cache, access_tokens, tokens, verified,
                   calls, req, responses>>

\* the 401 and 403 outcomes of login leave the state as it is
Login(email, api_key) ==
    /\ Cardinality(tokens) < MaxTokens
    /\ ClientsByEmail(email) # {}
    /\ LET client == clients[CHOOSE i \in ClientsByEmail(email) : TRUE]
       IN  /\ VerifyPassword(api_key, client.hashed_api_key)
           /\ client.status = "active"
           /\ LET token_data == [sub |-> ToString(client.id), scope |-> client.scopes]
                  expires_delta == <<LoginExpireHours * 3600>>
                  access_token == CreateAccessToken(token_data, SECRET_KEY,
                                      expires_delta, clock, clock,
                                      Cardinality(tokens) + 1)
              IN  tokens' = tokens \cup
                      {[tok |-> access_token, at |-> clock, ttl |-> expires_delta,
                        data |-> token_data]}
    /\ UNCHANGED <<clock, nticks, connected, redis, cache, clients, access_tokens, verified, calls, req, responses>>

---------------------------------------------------------------------------
(* Replay cache: AsyncRedisClient *)

\* f"rid:{request_id}"
RidKey(request_id) == <<"rid:", request_id>>

\* a key of the shared store is there until its time to live, if it has
\* one, has run out
Live(k, now) == ~k.hasTtl \/ now < k.expireAt

RedisHas(key) == \E k \in redis : k.key = key /\ Live(k, clock)

CacheHas(key) == key \in cache

\* a setnx that sets whether or not the key is there
SetnxAlways(key) == TRUE

\* what setnx returns: whether this call set the key
Setnx(key) == IF connected THEN ~RedisHas(key) ELSE ~CacheHas(key)

\* an expire that takes its seconds for ticks
ExpireAtTicks(now, seconds) == now + seconds

\* when a key given `seconds` to live at `now` is gone
ExpireAt(now, seconds) == now + seconds * Res

---------------------------------------------------------------------------
(* The requests *)

Reqs == 1..NumReq

NoInput ==
    [method |-> <<>>, path |-> <<>>, rid |-> <<>>, auth |-> <<>>, sig |-> <<>>,
     ts |-> <<>>, body |-> ""]

\* a request not yet received.  pc is the await the request stands at;
\* nx, nxAt, ex, exAt record how and when its setnx and expire calls ended;
\* steps lists the checks dispatch has run on the request so far
IdleReq ==
    [pc |-> "idle", in |-> NoInput, status |-> 0, error |-> "",
     client_id |-> <<>>, scopes |-> <<>>, handled |-> 0, sec_headers |-> FALSE,
     nx |-> "", nxAt |-> 0, ex |-> "", exAt |-> 0, steps |-> <<>>]

\* the request with one more check of dispatch run on it
Ran(q, step) == [q EXCEPT !.steps = Append(@, step)]

\* return JSONResponse(status_code=..., content={"error": ...})
Deny(q, status_code, error) ==
    [q EXCEPT !.pc = "done", !.status = status_code, !.error = error]

\* an int() that takes text that is no integer for 0
ParseIntLenient(ts) == <<ts.val>>

\* int(timestamp): <<n>>, or <<>> for ValueError
ParseInt(ts) == IF ts.int THEN <<ts.val>> ELSE <<>>

\* a bearer check followed by an HMAC check that either header calls for
CheckAuthEitherHeader(q, now) ==
    LET q0 == Ran(q, "bearer")
    IN  IF q.in.auth = <<>> \/ q.in.auth[1].scheme # "Bearer" \/ Len(q.in.auth[1].rest) = 0
        THEN Deny(q0, 401, "Authorization header required")
        ELSE
        LET v == VerifyToken(q.in.auth[1].rest[1], SECRET_KEY, now)
            qv == Ran(q0, "token")
            q1 == [qv EXCEPT !.client_id = <<v.payload.sub>>,
                             !.scopes = <<v.payload.scope>>]
        IN  IF v.kind = "HTTPException" THEN Deny(qv, v.status_code, v.detail)
            ELSE IF v.kind # "return" THEN Deny(qv, 500, "Internal server error")
            ELSE IF q.in.sig = <<>> /\ q.in.ts = <<>> THEN [q1 EXCEPT !.pc = "call_next"]
            ELSE IF q.in.sig = <<>> \/ q.in.ts = <<>> \/ ParseInt(q.in.ts[1]) = <<>>
            THEN Deny(Ran(q1, "skew"), 401, "Invalid HMAC signature")
            ELSE IF Abs(Sec(now) - q.in.ts[1].val) > SkewWindow
            THEN Deny(Ran(q1, "skew"), 400, "Request timestamp out of allowed window")
            ELSE [Ran(q1, "skew") EXCEPT !.pc = "body"]

\* dispatch from "Verify Authorization header" to the next await: the
\* bearer check, the attributes set on request.state, the timestamp window
CheckAuth(q, now) ==
    LET auth_header == q.in.auth
        q0 == Ran(q, "bearer")
    IN  IF auth_header = <<>> \/ auth_header[1].scheme # "Bearer"
           \/ Len(auth_header[1].rest) = 0
        THEN Deny(q0, 401, "Authorization header required")
        ELSE
        LET token == auth_header[1].rest[1]
            v == VerifyToken(token, SECRET_KEY, now)
            qv == Ran(q0, "token")
        IN  IF v.kind = "HTTPException" THEN Deny(qv, v.status_code, v.detail)
            ELSE IF v.kind # "return" THEN Deny(qv, 500, "Internal server error")
            ELSE
            LET q1 == [qv EXCEPT !.client_id = <<v.payload.sub>>,
                                 !.scopes = <<v.payload.scope>>]
                q2 == Ran(q1, "skew")
                signature == q.in.sig
                timestamp == q.in.ts
            IN  IF signature # <<>> /\ timestamp # <<>>
                THEN LET request_time == ParseInt(timestamp[1])
                     IN  IF request_time = <<>>
                         THEN Deny(q2, 500, "Internal server error")
                         ELSE IF Abs(Sec(now) - request_time[1]) > SkewWindow
                         THEN Deny(q2, 400, "Request timestamp out of allowed window")
                         ELSE [q2 EXCEPT !.pc = "body"]
                ELSE [q1 EXCEPT !.pc = "call_next"]

\* a dispatch that looks for the Authorization header before the request id
ReceiveBearerFirst(r, input) ==
    /\ req[r].pc = "idle"
    /\ LET q == Ran([req[r] EXCEPT !.in = input], "path")
       IN  req' = [req EXCEPT ![r] =
              IF IsExcluded(input.path) THEN [q EXCEPT !.pc = "call_next"]
              ELSE IF input.auth = <<>>
              THEN Deny(Ran(q, "bearer"), 401, "Authorization header required")
              ELSE IF input.rid = <<>> \/ input.rid[1] = ""
              THEN Deny(Ran(q, "rid"), 400, "X-Request-ID header is required")
              ELSE [Ran(q, "rid") EXCEPT !.pc = "setnx"]]
    /\ UNCHANGED <<clock, nticks, connected, redis, cache, clients, access_tokens, tokens, verified, calls, responses>>

\* dispatch from its start to the first await
Receive(r, input) ==
    /\ req[r].pc = "idle"
    /\ LET q == [req[r] EXCEPT !.in = input]
           request_id == input.rid
       IN  req' = [req EXCEPT ![r] =
              IF IsExcluded(input.path) THEN [Ran(q, "path") EXCEPT !.pc = "call_next"]
              ELSE IF request_id = <<>> \/ request_id[1] = ""
              THEN Deny(Ran(Ran(q, "path"), "rid"), 400, "X-Request-ID header is required")
              ELSE [Ran(Ran(q, "path"), "rid") EXCEPT !.pc = "setnx"]]
    /\ UNCHANGED <<clock, nticks, connected, redis, cache, clients, access_tokens, tokens, verified, calls, responses>>

\* await redis_client.setnx(f"rid:{request_id}", "1") returns
SetNx(r) ==
    /\ req[r].pc = "setnx"
    /\ LET key == RidKey(req[r].in.rid[1])
           exists == Setnx(key)
           q == [Ran(req[r], "replay") EXCEPT !.nxAt = clock,
                               !.nx = IF exists THEN "won" ELSE "lost"]
       IN  /\ req' = [req EXCEPT ![r] =
                 IF ~exists
                 THEN Deny(q, 400, "Request ID already used (replay detected)")
                 ELSE [q EXCEPT !.pc = "expire"]]
           /\ redis' = IF connected /\ exists
                       THEN {k \in redis : k.key # key}
                            \cup {[key |-> key, hasTtl |-> FALSE, expireAt |-> 0]}
                       ELSE redis
           /\ cache' = IF ~connected /\ exists THEN cache \cup {key} ELSE cache
    /\ UNCHANGED <<clock, nticks, connected, clients, access_tokens, tokens, verified, calls, responses>>

\* a gate that answers 500 when the shared store raises in setnx
SetNxRaisesDenies(r) ==
    /\ req[r].pc = "setnx"
    /\ connected
    /\ req' = [req EXCEPT ![r] =
          Deny([Ran(req[r], "replay") EXCEPT !.nx = "raised", !.nxAt = clock],
               500, "Internal server error")]
    /\ UNCHANGED <<clock, nticks, connected, redis, cache, clients, access_tokens, tokens, verified, calls, responses>>

\* the shared store raises in setnx: logged, and dispatch goes on
SetNxRaises(r) ==
    /\ req[r].pc = "setnx"
    /\ connected
    /\ req' = [req EXCEPT ![r] =
          CheckAuth([Ran(req[r], "replay") EXCEPT !.nx = "raised", !.nxAt = clock],
                    clock)]
    /\ UNCHANGED <<clock, nticks, connected, redis, cache, clients, access_tokens, tokens, verified, calls, responses>>

\* an expire after which a request that is denied gives its id back
ExpireRollsBack(r) ==
    /\ req[r].pc = "expire"
    /\ LET key == RidKey(req[r].in.rid[1])
           q == CheckAuth([req[r] EXCEPT !.exAt = clock,
                              !.ex = IF connected THEN "set" ELSE "noop"], clock)
       IN  /\ redis' = IF q.pc = "done"
                       THEN {k \in redis : k.key # key}
                       ELSE {IF k.key = key
                             THEN [k EXCEPT !.hasTtl = TRUE,
                                            !.expireAt = ExpireAt(clock, ReplayTtl)]
                             ELSE k : k \in redis}
           /\ cache' = IF q.pc = "done" THEN cache \ {key} ELSE cache
           /\ req' = [req EXCEPT ![r] = q]
    /\ UNCHANGED <<clock, nticks, connected, clients, access_tokens, tokens, verified, calls, responses>>

\* await redis_client.expire(f"rid:{request_id}", 60) returns
Expire(r) ==
    /\ req[r].pc = "expire"
    /\ LET key == RidKey(req[r].in.rid[1])
       IN  /\ redis' = IF connected
                       THEN {IF k.key = key
                             THEN [k EXCEPT !.hasTtl = TRUE,
                                            !.expireAt = ExpireAt(clock, ReplayTtl)]
                             ELSE k : k \in redis}
                       ELSE redis
           /\ req' = [req EXCEPT ![r] =
                 CheckAuth([req[r] EXCEPT !.exAt = clock,
                               !.ex = IF connected THEN "set" ELSE "noop"], clock)]
    /\ UNCHANGED <<clock, nticks, connected, cache, clients, access_tokens, tokens, verified, calls, responses>>

\* the shared store raises in expire: logged, and dispatch goes on
ExpireRaises(r) ==
    /\ req[r].pc = "expire"
    /\ connected
    /\ req' = [req EXCEPT ![r] =
          CheckAuth([req[r] EXCEPT !.ex = "raised", !.exAt = clock], clock)]
    /\ UNCHANGED <<clock, nticks, connected, redis, cache, clients, access_tokens, tokens, verified, calls, responses>>

\* await request.body() returns: the digest of the body and the HMAC check
VerifyBody(r) ==
    /\ req[r].pc = "body"
    /\ LET q == Ran(Ran(req[r], "body"), "hmac")
           client_secret == DemoSecret
           body_hash == Sha256(q.in.body)
       IN  req' = [req EXCEPT ![r] =
              IF ~VerifyHmacSignature(client_secret, q.in.method, q.in.path,
                                      TsText(q.in.ts[1]), body_hash, StripScheme(q.in.sig[1]))
              THEN Deny(q, 401, "Invalid HMAC signature")
              ELSE [q EXCEPT !.pc = "call_next"]]
    /\ UNCHANGED <<clock, nticks, connected, redis, cache, clients, access_tokens, tokens, verified, calls, responses>>

\* a gate that hands the request on and stays where it is
CallNextAgain(r) ==
    /\ req[r].pc = "call_next"
    /\ req[r].handled < 2
    /\ req' = [req EXCEPT ![r] =
          [req[r] EXCEPT !.status = 200, !.handled = req[r].handled + 1,
                         !.sec_headers = TRUE]]
    /\ UNCHANGED <<clock, nticks, connected, redis, cache, clients, access_tokens, tokens, verified, calls, responses>>

\* await call_next(request): SecurityMiddleware, inside AuthMiddleware, and
\* the route handler; 200 stands for whatever the handler answers
CallNext(r) ==
    /\ req[r].pc = "call_next"
    /\ req' = [req EXCEPT ![r] =
          [req[r] EXCEPT !.pc = "done", !.status = 200,
                         !.handled = req[r].handled + 1, !.sec_headers = TRUE]]
    /\ UNCHANGED <<clock, nticks, connected, redis, cache, clients, access_tokens, tokens, verified, calls, responses>>

\* time passes; keys of the shared store whose time has run out are gone
Tick(d, limit) ==
    /\ nticks < limit
    /\ clock' = clock + d
    /\ nticks' = nticks + 1
    /\ redis' = {k \in redis : Live(k, clock + d)}
    /\ UNCHANGED <<connected, cache, clients, access_tokens, tokens, verified, calls, req, responses>>

---------------------------------------------------------------------------
(* What a client may send *)

Bearer(t) == <<[scheme |-> "Bearer", rest |-> <<t>>]>>

Issued == {t.tok : t \in tokens}
Forged == {[t EXCEPT !.key = OtherKey] : t \in Issued}

\* a well-formed request to the path the gate does not exempt
Base(t) ==
    [method |-> <<"POST">>, path |-> EmptyPath, rid |-> <<"a">>, auth |-> Bearer(t),
     sig |-> <<>>, ts |-> <<>>, body |-> "x"]

\* a request with no headers at all
Bare(p) == [NoInput EXCEPT !.method = <<"GET">>, !.path = p]

Secrets == {DemoSecret} \cup {ClientSecret(clients[i].id) : i \in 1..Len(clients)}

\* the X-Signature a client holding secret computes for request i
SigOver(secret, i) ==
    SigHeader(TRUE, HmacSha256(secret,
        StringToSign(i.method, i.path, TsText(i.ts[1]), Sha256(i.body))))

Signed(i, secret) == [i EXCEPT !.sig = <<SigOver(secret, i)>>]

SkewOffsets == {-(SkewWindow + 1), -SkewWindow, 0, SkewWindow, SkewWindow + 1}

AuthValues ==
    {<<>>,
     <<[scheme |-> "Basic", rest |-> <<NotJwt("garbage")>>]>>,
     <<[scheme |-> "Bearer", rest |-> <<>>]>>}
    \cup {Bearer(t) : t \in Forged \cup {NotJwt("garbage"), NotJwt("")}}
    \cup {<<[scheme |-> "Bearer", rest |-> <<NotJwt(""), t>>]>> : t \in Issued}
    \cup {<<[scheme |-> "Bearer", rest |-> <<t, NotJwt("garbage")>>]>> : t \in Issued}

PathInputs ==
    {Bare(p) : p \in Paths}
    \cup {[Base(t) EXCEPT !.path = p] : p \in Paths, t \in Issued}

RidInputs == {[Base(t) EXCEPT !.rid = x] : x \in {<<>>, <<"">>}, t \in Issued}

AuthInputs == {[Base(NotJwt("")) EXCEPT !.auth = a] : a \in AuthValues}

HmacInputs ==
    LET timed(t, ts) == [Base(t) EXCEPT !.ts = <<ts>>]
        now == TsHeader(Sec(clock))
    IN  \* a signature at each distance from the clock, and under each secret
        {Signed(timed(t, TsHeader(Sec(clock) + d)), DemoSecret) :
            t \in Issued, d \in SkewOffsets}
        \cup {Signed(timed(t, now), s) : t \in Issued, s \in Secrets}
        \* the digest without its "sha256=" prefix
        \cup {[Signed(timed(t, now), DemoSecret) EXCEPT !.sig[1].prefixed = FALSE] :
                t \in Issued}
        \* signed, and then the method, the body or the timestamp changed
        \cup {[Signed(timed(t, now), DemoSecret) EXCEPT !.method = <<"GET">>] : t \in Issued}
        \cup {[Signed(timed(t, now), DemoSecret) EXCEPT !.body = "y"] : t \in Issued}
        \cup {[Signed(timed(t, now), DemoSecret) EXCEPT !.ts = <<TsHeader(Sec(clock) + 1)>>] :
                t \in Issued}
        \* signed for another path
        \cup {[Signed([timed(t, now) EXCEPT !.path = AiPath], DemoSecret)
                  EXCEPT !.path = EmptyPath] : t \in Issued}
        \* a timestamp that is no integer; one header without the other
        \cup {[Signed(timed(t, now), DemoSecret) EXCEPT !.ts = <<TsNotInt>>] : t \in Issued}
        \cup {[Signed(timed(t, now), s) EXCEPT !.ts = <<>>] :
                t \in Issued, s \in {DemoSecret, ClientSecret(1)}}
        \cup {timed(t, ts) : t \in Issued, ts \in {now, TsNotInt}}
        \* a signature on a request whose token does not verify
        \cup {Signed(timed(t, now), DemoSecret) : t \in Forged \cup {NotJwt("garbage")}}

GateInputs == PathInputs \cup RidInputs \cup AuthInputs \cup HmacInputs

\* when the bearer check of a request ran: as its last cache call ended
AuthAt(q) == IF q.nx = "raised" THEN q.nxAt ELSE q.exAt

\* requests that carry no token: what they race for is the request id
RaceInputs ==
    {[Bare(p) EXCEPT !.rid = x] : p \in {EmptyPath, HealthPath}, x \in {<<"a">>, <<"b">>}}

---------------------------------------------------------------------------
(* Specifications *)

Init ==
    /\ clock = 0
    /\ nticks = 0
    /\ connected \in BOOLEAN
    /\ redis = {}
    /\ cache = {}
    /\ clients = <<>>
    /\ access_tokens = {}
    /\ tokens = {}
    /\ verified = {}
    /\ calls = {}
    /\ responses = {}
    /\ req = [r \in Reqs |-> IdleReq]

\* the gate in front of one request, with registration and login
Next ==
    \/ \E d \in GateDeltas : Tick(d, MaxGateTicks)
    \/ \E g \in Registrations : Register(g[1], g[2])
    \/ \E e \in Emails, id \in 1..MaxClients : Login(e, ApiKey(id))
    \/ \E i \in GateInputs : Receive(1, i)
    \/ SetNx(1)
    \/ SetNxRaises(1)
    \/ Expire(1)
    \/ ExpireRaises(1)
    \/ VerifyBody(1)
    \/ CallNext(1)

Spec == Init /\ [][Next]_vars

\* every await of dispatch comes back: a cache call returns or raises, the
\* body arrives
Fairness ==
    /\ WF_vars(SetNx(1) \/ SetNxRaises(1))
    /\ WF_vars(Expire(1) \/ ExpireRaises(1))
    /\ WF_vars(VerifyBody(1))

\* one request of each kind of outcome: exempt, without an id, without a
\* header, with a string that is no token, with a token, and signed with the
\* secret of the gate and with another
LiveInputs ==
    {Bare(HealthPath), Bare(EmptyPath), [Bare(EmptyPath) EXCEPT !.rid = <<"a">>],
     Base(NotJwt("garbage"))}
    \cup {Base(t) : t \in Issued}
    \cup {Signed([Base(t) EXCEPT !.ts = <<TsHeader(Sec(clock))>>], s) :
            t \in Issued, s \in {DemoSecret, ClientSecret(1)}}

NextLive ==
    \/ \E d \in GateDeltas : Tick(d, MaxGateTicks)
    \/ \E g \in Registrations : Register(g[1], g[2])
    \/ \E e \in Emails, id \in 1..MaxClients : Login(e, ApiKey(id))
    \/ \E i \in LiveInputs : Receive(1, i)
    \/ SetNx(1)
    \/ SetNxRaises(1)
    \/ Expire(1)
    \/ ExpireRaises(1)
    \/ VerifyBody(1)
    \/ CallNext(1)

SpecFair == Init /\ [][NextLive]_vars /\ Fairness

\* requests racing for request ids
NextRace ==
    \/ \E d \in RaceDeltas : Tick(d, MaxTicks)
    \/ \E r \in Reqs, i \in RaceInputs : Receive(r, i)
    \/ \E r \in Reqs : SetNx(r)
    \/ \E r \in Reqs : SetNxRaises(r)
    \/ \E r \in Reqs : Expire(r)
    \/ \E r \in Reqs : ExpireRaises(r)
    \/ \E r \in Reqs : CallNext(r)

SpecRace == Init /\ [][NextRace]_vars

---------------------------------------------------------------------------
(* The token codec on its own: tokens issued with any time to live and     *)
(* handed to verify_token as time goes by                                  *)

\* expires_delta: None, timedelta(0), one second, one minute
TimeToLive == {<<>>, <<0>>, <<1>>, <<60>>}

CodecDeltas == {1, Res, 60 * Res}

\* elapsed is the time that passes between the two readings of the clock
CodecIssue(sub, scope, expires_delta, elapsed) ==
    /\ Cardinality(tokens) < MaxTokens
    /\ elapsed = 0 \/ nticks < MaxTicks
    /\ LET data == [sub |-> sub, scope |-> scope]
       IN  tokens' = tokens \cup
             {[tok |-> CreateAccessToken(data, SECRET_KEY, expires_delta,
                           clock, clock + elapsed, Cardinality(tokens) + 1),
               at |-> clock, ttl |-> expires_delta, data |-> data]}
    /\ clock' = clock + elapsed
    /\ nticks' = IF elapsed = 0 THEN nticks ELSE nticks + 1
    /\ redis' = {k \in redis : Live(k, clock + elapsed)}
    /\ UNCHANGED <<connected, cache, clients, access_tokens, verified, calls, req, responses>>

CodecVerify(token) ==
    /\ Cardinality(verified) < MaxVerify
    /\ verified' = verified \cup
          {[tok |-> token, at |-> clock,
            result |-> VerifyToken(token, SECRET_KEY, clock)]}
    /\ UNCHANGED <<clock, nticks, connected, redis, cache, clients, access_tokens, tokens, calls, req, responses>>

NextCodec ==
    \/ \E d \in CodecDeltas : Tick(d, MaxTicks)
    \/ \E sub \in {"1", "2"}, ttl \in TimeToLive, elapsed \in {0, 1} :
          CodecIssue(sub, <<"basic">>, ttl, elapsed)
    \/ \E t \in Issued \cup Forged \cup {NotJwt("garbage")} : CodecVerify(t)

SpecCodec == Init /\ [][NextCodec]_vars

---------------------------------------------------------------------------
(* The gate and the tables: the status of a client and the revoked flag of *)
(* a token are columns no code of the program writes after registration;   *)
(* they are changed from outside, here before the request is sent          *)

\* UPDATE clients SET status = 'suspended' WHERE id = ...
Suspend(id) ==
    /\ req[1].pc = "idle"
    /\ id \in 1..Len(clients)
    /\ clients[id].status = "active"
    /\ clients' = [clients EXCEPT ![id].status = "suspended"]
    /\ UNCHANGED <<clock, nticks, connected, redis, cache, access_tokens, tokens, verified,
                   calls, req, responses>>

\* a row of access_tokens for the token, with revoked set
MarkRevoked(jti) ==
    /\ req[1].pc = "idle"
    /\ ~\E row \in access_tokens : row.jti = jti
    /\ access_tokens' = access_tokens \cup {[jti |-> jti, revoked |-> TRUE]}
    /\ UNCHANGED <<clock, nticks, connected, redis, cache, clients, tokens, verified,
                   calls, req, responses>>

\* requests that carry a token login issued, and nothing else to object to
TokenInputs == {Base(t) : t \in Issued}

NextRevoke ==
    \/ \E d \in GateDeltas : Tick(d, MaxGateTicks)
    \/ \E g \in Registrations : Register(g[1], g[2])
    \/ \E e \in Emails, id \in 1..MaxClients : Login(e, ApiKey(id))
    \/ \E id \in 1..MaxClients : Suspend(id)
    \/ \E t \in Issued : MarkRevoked(t.jti)
    \/ \E i \in TokenInputs : Receive(1, i)
    \/ SetNx(1)
    \/ Expire(1)
    \/ CallNext(1)

SpecRevoke == Init /\ [][NextRevoke]_vars

---------------------------------------------------------------------------
(* The HMAC verifier on its own: a client signs a request, and              *)
(* verify_hmac_signature is given the signature with the same inputs, or    *)
(* with one of them replaced                                                *)

\* the texts of at most MaxLen pieces over an alphabet
TextsOver(alphabet) == UNION {[1..n -> alphabet] : n \in 0..MaxLen}

\* method, path, timestamp and body hash; the secret
Texts == TextsOver({"a", NL})
SecretTexts == TextsOver({"k", NUL})

\* the arguments in the order of verify_hmac_signature
Args(secret, method, path, timestamp, body_hash) ==
    <<secret, method, path, timestamp, body_hash>>

HmacCall(signed, field, other) ==
    /\ calls = {}
    /\ LET given == [signed EXCEPT ![field] = other]
           signature == HmacSha256(signed[1],
                            StringToSign(signed[2], signed[3], signed[4], signed[5]))
       IN  calls' = {[signed |-> signed, given |-> given,
                      result |-> VerifyHmacSignature(given[1], given[2], given[3],
                                                     given[4], given[5], signature)]}
    /\ UNCHANGED <<clock, nticks, connected, redis, cache, clients, access_tokens, tokens, verified, req, responses>>

\* one call in a behaviour: the inputs are drawn once
NextHmac ==
    \/ /\ calls = {}
       /\ \E secret \in SecretTexts, method, path, timestamp, body_hash \in Texts :
             \E other \in SecretTexts :
                HmacCall(Args(secret, method, path, timestamp, body_hash), 1, other)
    \/ /\ calls = {}
       /\ \E secret \in SecretTexts, method, path, timestamp, body_hash \in Texts :
             \E field \in 2..5, other \in Texts :
                HmacCall(Args(secret, method, path, timestamp, body_hash), field, other)

SpecHmac == Init /\ [][NextHmac]_vars

---------------------------------------------------------------------------
(* What the requests of a state have been through *)

\* the gate ran its checks on the request: its path was not exempted
Gated(q) == q.pc # "idle" /\ ~IsExcluded(q.in.path)

\* the reservation call of the request returned
NxReturned(q) == q.nx \in {"won", "lost"}

\* the request is past the replay check and went on to the bearer check
ReplayPassed(q) == q.nx = "raised" \/ (q.nx = "won" /\ q.ex # "")

\* the request was turned away as a replay
ReplayDenied(q) ==
    /\ q.nx = "lost"
    /\ q.pc = "done"
    /\ q.status = 400
    /\ q.error = "Request ID already used (replay detected)"
    /\ q.handled = 0

SameRid(q1, q2) == Gated(q1) /\ Gated(q2) /\ q1.in.rid # <<>> /\ q1.in.rid = q2.in.rid

RidsSent == {req[r].in.rid : r \in {x \in Reqs : Gated(req[x]) /\ req[x].in.rid # <<>>}}

Window == ReplayTtl * Res

---------------------------------------------------------------------------
(* C1 *)

\* C1, as claimed: of the requests that carry one request id and have been
\* through the replay check at the same moment, exactly one has passed it and
\* every other one is denied with 400, replay detected.
C1_ExactlyOnePasses ==
    \A r1, r2 \in Reqs :
        ( /\ r1 # r2
          /\ SameRid(req[r1], req[r2])
          /\ req[r1].nxAt = req[r2].nxAt
          /\ ReplayPassed(req[r1]) \/ ReplayDenied(req[r1])
          /\ ReplayPassed(req[r2]) \/ ReplayDenied(req[r2]) )
        => ( /\ ReplayPassed(req[r1]) # ReplayPassed(req[r2])
             /\ ReplayDenied(req[r1]) # ReplayDenied(req[r2]) )

\* C1, amended: of the requests that carry one request id, whose setnx calls
\* all returned and lie within one 60 second window, exactly one made the
\* reservation, and every other one is denied with 400, replay detected, and
\* its handler not invoked.
C1_ExactlyOneWins ==
    \A x \in RidsSent :
        LET S == {r \in Reqs : Gated(req[r]) /\ req[r].in.rid = x /\ NxReturned(req[r])}
        IN  ( /\ S # {}
              /\ \A a, b \in S : Abs(req[a].nxAt - req[b].nxAt) < Window )
            => /\ Cardinality({r \in S : req[r].nx = "won"}) = 1
               /\ \A r \in S : req[r].nx = "lost" => ReplayDenied(req[r])

\* two requests with one id have raced: one won, one is denied
C1_Witness ==
    \E r1, r2 \in Reqs :
        /\ r1 # r2
        /\ SameRid(req[r1], req[r2])
        /\ req[r1].nxAt = req[r2].nxAt
        /\ ReplayPassed(req[r1]) /\ req[r1].nx = "won"
        /\ ReplayDenied(req[r2])

---------------------------------------------------------------------------
(* C2 *)

\* C2, as claimed: two requests with one request id that both passed the
\* replay check, cache errors or not, lie at least 60 seconds apart.
C2_OncePerWindow ==
    \A r1, r2 \in Reqs :
        ( /\ r1 # r2
          /\ SameRid(req[r1], req[r2])
          /\ ReplayPassed(req[r1])
          /\ ReplayPassed(req[r2]) )
        => Abs(req[r1].nxAt - req[r2].nxAt) >= Window

\* C2, amended: two requests with one request id that both passed the replay
\* check on a reservation the cache made for them (their setnx call returned)
\* lie at least 60 seconds apart.
C2_OnceReservedPerWindow ==
    \A r1, r2 \in Reqs :
        ( /\ r1 # r2
          /\ SameRid(req[r1], req[r2])
          /\ req[r1].nx = "won"
          /\ req[r2].nx = "won" )
        => Abs(req[r1].nxAt - req[r2].nxAt) >= Window

\* an id was reserved with its 60 seconds, and refused within them
C2_Witness ==
    \E r1, r2 \in Reqs :
        /\ r1 # r2
        /\ SameRid(req[r1], req[r2])
        /\ req[r1].nx = "won" /\ req[r1].ex = "set"
        /\ ReplayDenied(req[r2])
        /\ 0 < req[r2].nxAt - req[r1].nxAt
        /\ req[r2].nxAt - req[r1].nxAt < Window

---------------------------------------------------------------------------
(* C3 *)

\* C3, as claimed: a request is refused as a replay only while a reservation
\* of its id is being made or is less than 60 seconds old; once the 60 seconds
\* of an accepted id are over the id is accepted again, on either backend.
C3_ReusableAfterTtl ==
    \A r \in Reqs :
        req[r].nx = "lost" =>
            \E w \in Reqs :
                /\ w # r
                /\ SameRid(req[w], req[r])
                /\ req[w].nx = "won"
                /\ req[w].ex = "" \/ req[r].nxAt < req[w].exAt + Window

---------------------------------------------------------------------------
(* What the one request of Spec carried *)

\* the Authorization header is absent or does not start with "Bearer "
NoBearer(i) ==
    i.auth = <<>> \/ i.auth[1].scheme # "Bearer" \/ Len(i.auth[1].rest) = 0

\* the token after "Bearer "
TokenOf(i) == i.auth[1].rest[1]

\* the downstream handler has been, or is about to be, invoked
Admitted(q) == q.pc = "call_next" \/ q.handled > 0

\* the request is answered by the gate itself
DeniedWith(q, status, error) ==
    q.pc = "done" /\ q.status = status /\ q.error = error /\ q.handled = 0

\* the shared secret register_client handed to the client a token names
SecretOfSub(sub) ==
    ClientSecret(CHOOSE id \in 1..MaxClients : ToString(id) = sub)

\* the request carries a token that verified, both HMAC headers, and a
\* timestamp inside the window, and its HMAC check is over
HmacChecked(q) ==
    /\ Gated(q)
    /\ q.client_id # <<>>
    /\ q.in.sig # <<>> /\ q.in.ts # <<>>
    /\ q.in.ts[1].int
    /\ q.pc \in {"call_next", "done"}
    /\ q.error # "Request timestamp out of allowed window"

\* the digest a client computes over exactly what the request carries
RightDigest(i, secret) ==
    HmacSha256(secret, StringToSign(i.method, i.path, TsText(i.ts[1]), Sha256(i.body)))

---------------------------------------------------------------------------
(* C4 *)

\* C4, as claimed: a request to /api/ai/standard or /auth/profile that
\* carries no X-Request-ID is denied with 400 and its handler never invoked.
C4_MissingIdDenied ==
    \A r \in Reqs :
        ( /\ req[r].pc # "idle"
          /\ req[r].in.path \in {AiPath, ProfilePath}
          /\ req[r].in.rid = <<>> )
        => DeniedWith(req[r], 400, "X-Request-ID header is required")

---------------------------------------------------------------------------
(* C5 *)

\* C5, as claimed: a request to a path outside the allow-list of
\* unauthenticated paths, such as /api/ai/standard or /auth/profile, is handed
\* to its handler only if it carried "Bearer <token>" with a well-formed token
\* signed with the server secret.
C5_NonExemptNeedsBearer ==
    \A r \in Reqs :
        LET q == req[r] IN
        (q.in.path \in {AiPath, ProfilePath} /\ Admitted(q)) =>
            /\ ~NoBearer(q.in)
            /\ TokenOf(q.in).wf
            /\ TokenOf(q.in).key = SECRET_KEY

\* C5, for the requests dispatch does check (which they are is C4): a request
\* whose path the gate does not exempt is admitted only if it
\* carried "Bearer <token>" with a well-formed token signed with the server
\* secret and not expired when checked; if it comes to the bearer check with
\* the header absent or not starting with "Bearer " it is denied with 401.
C5_AdmittedHasBearer ==
    \A r \in Reqs :
        LET q == req[r] IN
        /\ (Gated(q) /\ Admitted(q)) =>
              /\ ~NoBearer(q.in)
              /\ TokenOf(q.in).wf
              /\ TokenOf(q.in).key = SECRET_KEY
              /\ TokenOf(q.in).exp * Res > AuthAt(q)
        /\ (Gated(q) /\ ReplayPassed(q) /\ NoBearer(q.in)) =>
              DeniedWith(q, 401, "Authorization header required")

\* a gated request with a login token has reached its handler
C5_Witness ==
    \E r \in Reqs :
        /\ Gated(req[r]) /\ req[r].handled = 1
        /\ ~NoBearer(req[r].in) /\ TokenOf(req[r].in) \in Issued

---------------------------------------------------------------------------
(* C6 *)

\* C6: a request with no headers at all to "/", "/health" or "/auth/login" is
\* admitted: it is handed to its handler and never answered by the gate, no
\* reservation is made or attempted, and no client id or scopes are attached.
C6_ExemptAdmitted ==
    \A r \in Reqs :
        LET q == req[r] IN
        (q.pc # "idle" /\ \E p \in {RootPath, HealthPath, LoginPath} : q.in = Bare(p))
        => /\ Admitted(q)
           /\ q.pc = "done" => (q.handled = 1 /\ q.error = "")
           /\ q.nx = "" /\ q.ex = ""
           /\ redis = {} /\ cache = {}
           /\ q.client_id = <<>> /\ q.scopes = <<>>

\* GET /health with no headers has been answered by its handler
C6_Witness ==
    \E r \in Reqs :
        req[r].in = Bare(HealthPath) /\ req[r].pc = "done" /\ req[r].handled = 1

---------------------------------------------------------------------------
(* C8 *)

\* C8, as claimed: a request that comes to the bearer check with a token
\* that is malformed (or empty), or signed with another key, is denied with
\* status 401.
C8_BadTokenIs401 ==
    \A r \in Reqs :
        LET q == req[r] IN
        ( /\ Gated(q) /\ ReplayPassed(q)
          /\ ~NoBearer(q.in)
          /\ ~TokenOf(q.in).wf \/ TokenOf(q.in).key # SECRET_KEY )
        => (q.pc = "done" /\ q.status = 401 /\ q.handled = 0)

---------------------------------------------------------------------------
(* C9 *)

\* C9, as claimed: a request with a valid token, both HMAC headers and a
\* timestamp in the window, whose signature is not the digest under the
\* client's shared secret of what the request carries, is denied with 401,
\* invalid signature, and its handler not invoked.
C9_WrongSecretDenied ==
    \A r \in Reqs :
        LET q == req[r] IN
        ( /\ HmacChecked(q)
          /\ StripScheme(q.in.sig[1]) # RightDigest(q.in, SecretOfSub(q.client_id[1])) )
        => DeniedWith(q, 401, "Invalid HMAC signature")

---------------------------------------------------------------------------
(* C10 *)

\* C10, as claimed: with the token of client A, a signature computed with
\* A's shared secret over what the request carries is accepted, and one
\* computed with the secret of another client B is rejected.
C10_SecretOfTheClient ==
    \A r \in Reqs :
        LET q == req[r] IN
        HmacChecked(q) =>
           /\ StripScheme(q.in.sig[1]) = RightDigest(q.in, SecretOfSub(q.client_id[1]))
                 => Admitted(q)
           /\ \A b \in 1..Len(clients) :
                 ( /\ ClientSecret(b) # SecretOfSub(q.client_id[1])
                   /\ StripScheme(q.in.sig[1]) = RightDigest(q.in, ClientSecret(b)) )
                 => DeniedWith(q, 401, "Invalid HMAC signature")

---------------------------------------------------------------------------
(* C7 *)

\* the tokens create_access_token was given a time to live for
WithTtl == {t \in tokens : t.ttl # <<>>}

\* C7, as claimed: a token issued with time to live T is returned by
\* verify_token at any time strictly before issue time + T, and raises 401,
\* token has expired, at any time after issue time + T.
C7_TtlHonoured ==
    \A v \in verified : \A t \in WithTtl :
        v.tok = t.tok =>
            /\ v.at < t.at + t.ttl[1] * Res => v.result = Returned(t.tok)
            /\ v.at > t.at + t.ttl[1] * Res =>
                   v.result = Raised("HTTPException", 401, "Token has expired")

---------------------------------------------------------------------------
(* C11 *)

\* the request carried a token that verified, both HMAC headers and an
\* integer timestamp: dispatch came to its timestamp window check
SkewChecked(q) ==
    /\ Gated(q)
    /\ q.client_id # <<>>
    /\ q.in.sig # <<>> /\ q.in.ts # <<>>
    /\ q.in.ts[1].int

\* how far, in ticks, the timestamp lay from the time of the check
SkewOf(q) ==
    LET x == AuthAt(q) - q.in.ts[1].val * Res
    IN  IF x < 0 THEN -x ELSE x

SkewDenied(q) == DeniedWith(q, 400, "Request timestamp out of allowed window")

\* C11: a timestamp exactly 30 seconds from the current time, before or
\* after it, passes the window check; one 31 seconds or more away is denied
\* with 400, timestamp out of allowed window.
C11_SkewBoundary ==
    \A r \in Reqs :
        LET q == req[r] IN
        SkewChecked(q) =>
            /\ SkewOf(q) = SkewWindow * Res => ~SkewDenied(q)
            /\ SkewOf(q) >= (SkewWindow + 1) * Res => SkewDenied(q)

\* a request stamped exactly 30 seconds ahead of the clock has passed the
\* window check and reached its handler
C11_Witness ==
    \E r \in Reqs :
        /\ SkewChecked(req[r])
        /\ SkewOf(req[r]) = SkewWindow * Res
        /\ req[r].in.ts[1].val * Res > AuthAt(req[r])
        /\ req[r].handled = 1

---------------------------------------------------------------------------
(* C12 *)

\* the arguments of a call other than the secret
Message(args) == SubSeq(args, 2, 5)

---------------------------------------------------------------------------
(* C13 *)

\* the request has been answered, by the gate or by what is behind it
Answered(q) == q.pc = "done"

\* C13, as claimed: every response carries the security headers, the
\* responses to admitted requests and the denials of the gate alike.
C13_HeadersOnEveryResponse ==
    \A r \in Reqs : Answered(req[r]) => req[r].sec_headers

---------------------------------------------------------------------------
(* C14 *)

\* a cache call of the replay check of the request raised
CacheRaised(q) == Gated(q) /\ (q.nx = "raised" \/ q.ex = "raised")

\* the request carried a token login issued, not expired when checked
ValidBearer(q) ==
    /\ ~NoBearer(q.in)
    /\ TokenOf(q.in) \in Issued
    /\ TokenOf(q.in).exp * Res > AuthAt(q)

\* C14: a request whose setnx or expire call raised is not answered by the
\* replay check: it has gone on to the bearer check, which denies it with
\* 401 if it has no bearer header, and with a valid token and no HMAC
\* headers it is admitted under the identity of the token.
C14_CacheFailurePassesThrough ==
    \A r \in Reqs :
        LET q == req[r] IN
        CacheRaised(q) =>
            /\ q.pc \in {"body", "call_next", "done"}
            /\ ~ReplayDenied(q)
            /\ NoBearer(q.in) => DeniedWith(q, 401, "Authorization header required")
            /\ (ValidBearer(q) /\ (q.in.sig = <<>> \/ q.in.ts = <<>>)) =>
                  /\ Admitted(q)
                  /\ q.client_id = <<TokenOf(q.in).sub>>

\* setnx raised for an identifier nobody holds, and the request, with its
\* valid token, has reached its handler
C14_Witness ==
    \E r \in Reqs :
        /\ req[r].nx = "raised"
        /\ redis = {}
        /\ ValidBearer(req[r])
        /\ req[r].handled = 1

---------------------------------------------------------------------------
(* C15 *)

\* C15, as claimed: an identifier presented while the shared store is
\* failing is recorded in the in-process map, and of two requests that
\* present one identifier during the outage the later is refused as a replay.
C15_FallbackRecords ==
    /\ \A r \in Reqs :
          (Gated(req[r]) /\ req[r].nx = "raised") =>
              CacheHas(RidKey(req[r].in.rid[1]))
    /\ \A r1, r2 \in Reqs :
          ( /\ r1 # r2
            /\ SameRid(req[r1], req[r2])
            /\ req[r1].nx = "raised" /\ req[r2].nx = "raised" )
          => ~(ReplayPassed(req[r1]) /\ ReplayPassed(req[r2]))

---------------------------------------------------------------------------
(* C16 *)

\* request.state carries the sub and the scope of the token presented
IdentityOfToken(q) ==
    /\ q.client_id = <<TokenOf(q.in).sub>>
    /\ q.scopes = <<TokenOf(q.in).scope>>

\* C16, as claimed: a request to a path outside the allow-list of
\* unauthenticated paths, such as /api/ai/standard or /auth/profile, that
\* is admitted with the token it presented has the sub of that token as its
\* client id and the scope of that token as its scopes.
C16_IdentityAttached ==
    \A r \in Reqs :
        LET q == req[r] IN
        ( /\ q.in.path \in {AiPath, ProfilePath}
          /\ Admitted(q)
          /\ ~NoBearer(q.in) /\ TokenOf(q.in) \in Issued )
        => IdentityOfToken(q)

\* C16, for the requests dispatch does check (which they are is C4): an
\* admitted request has the sub and the scope of its token attached.
C16_CheckedIdentityAttached ==
    \A r \in Reqs :
        (Gated(req[r]) /\ Admitted(req[r])) => IdentityOfToken(req[r])

---------------------------------------------------------------------------
(* C17 *)

\* the row of the client a token was issued to
OwnerOf(token) ==
    clients[CHOOSE id \in 1..Len(clients) : ToString(id) = token.sub]

Revoked(token) ==
    \E row \in access_tokens : row.jti = token.jti /\ row.revoked

\* C17, as claimed: a request is admitted with a token login issued only
\* if the token is not marked revoked and the client it was issued to is
\* active.
C17_RevokedNotAdmitted ==
    \A r \in Reqs :
        LET q == req[r] IN
        (Gated(q) /\ Admitted(q) /\ ~NoBearer(q.in) /\ TokenOf(q.in) \in Issued)
        => /\ ~Revoked(TokenOf(q.in))
           /\ OwnerOf(TokenOf(q.in)).status = "active"

---------------------------------------------------------------------------
(* C18 *)

\* the request was answered by the gate itself, its handler not invoked
DeniedByGate(q) == Gated(q) /\ q.pc = "done" /\ q.handled = 0

\* the messages of the 400, the 401 and the 500 denials
Messages400 ==
    {"X-Request-ID header is required",
     "Request ID already used (replay detected)",
     "Request timestamp out of allowed window"}
Messages401 ==
    {"Authorization header required", "Token has expired", "Invalid token",
     "Invalid HMAC signature"}
Messages500 == {"Internal server error"}

\* the request came to the bearer check with a token that is no JWT or is
\* signed with another key
BadToken(q) ==
    /\ ReplayPassed(q)
    /\ ~NoBearer(q.in)
    /\ ~TokenOf(q.in).wf \/ TokenOf(q.in).key # SECRET_KEY

\* the message of a denial is one of the fixed messages, under its status
EnvelopeOf(q) ==
    \/ q.status = 400 /\ q.error \in Messages400
    \/ q.status = 401 /\ q.error \in Messages401
    \/ q.status = 500 /\ q.error \in Messages500

\* C18, as claimed: every denial of the gate carries one of the fixed
\* messages under the status of the failing step: 400 for a missing or
\* replayed id and for clock skew, 401 for a missing, expired or invalid
\* token and for an invalid signature, 500 for nothing of these.
C18_DenialEnvelope ==
    \A r \in Reqs :
        LET q == req[r] IN
        DeniedByGate(q) =>
            /\ EnvelopeOf(q)
            /\ BadToken(q) => q.status = 401

\* C18, the envelope alone: every denial of the gate carries one of the
\* fixed messages, under the status that goes with the message.
C18_FixedMessages ==
    \A r \in Reqs : DeniedByGate(req[r]) => EnvelopeOf(req[r])

---------------------------------------------------------------------------
(* C19 *)

\* C19, as claimed: a token issued for a subject, a scope list and a time
\* to live has exp equal to iat plus the time to live and a jti, and
\* verify_token, called before the exp of the token, returns the subject and
\* the scope list it was issued for.
C19_IssueVerifyRoundTrip ==
    /\ \A t \in WithTtl :
          /\ t.tok.exp = t.tok.iat + t.ttl[1]
          /\ t.tok.jti > 0
    /\ \A v \in verified : \A t \in tokens :
          (v.tok = t.tok /\ v.at < t.tok.exp * Res) =>
              /\ v.result.kind = "return"
              /\ v.result.payload.sub = t.data.sub
              /\ v.result.payload.scope = t.data.scope

\* C19, what is returned: verify_token, called before the exp of a token,
\* returns the subject and the scope list the token was issued for.
C19_PayloadReturned ==
    \A v \in verified : \A t \in tokens :
        (v.tok = t.tok /\ v.at < t.tok.exp * Res) =>
            /\ v.result.kind = "return"
            /\ v.result.payload.sub = t.data.sub
            /\ v.result.payload.scope = t.data.scope

---------------------------------------------------------------------------
(* C20 *)

\* DENIED: the gate has answered and the handler was not invoked
Denied(q) == q.pc = "done" /\ q.handled = 0

\* C20: a request is never both admitted and denied, its handler is invoked
\* at most once and only on admission; a denied request stays as it is, an
\* admitted one is never denied; and every request received comes to be
\* admitted or denied.
C20_OneTerminalState ==
    /\ [](\A r \in Reqs :
            /\ ~(Admitted(req[r]) /\ Denied(req[r]))
            /\ req[r].handled <= 1
            /\ req[r].pc = "done" => (req[r].handled = 1 <=> Admitted(req[r])))
    /\ [][\A r \in Reqs :
            /\ Denied(req[r]) => req'[r] = req[r]
            /\ Admitted(req[r]) => Admitted(req'[r])
            /\ req'[r].handled > req[r].handled => req[r].pc = "call_next"]_vars
    /\ \A r \in {1} : (req[r].pc # "idle") ~> (Admitted(req[r]) \/ Denied(req[r]))

\* a request has been through both cache calls and all checks of the gate,
\* and its handler has been invoked once
C20_Witness ==
    \E r \in Reqs :
        /\ Gated(req[r]) /\ req[r].nx = "won" /\ req[r].ex # ""
        /\ HmacChecked(req[r])
        /\ req[r].pc = "done" /\ req[r].handled = 1

---------------------------------------------------------------------------
(* The order of the checks: request 1 fails any of the checks, or several  *)
(* of them, while request 2 may hold the request id it carries             *)

\* the holder of the id: a request with the id and nothing else
Holder == [Bare(EmptyPath) EXCEPT !.rid = <<"a">>]

\* with or without an id; without a header, with a string that is no token,
\* with a token; without HMAC headers, with a right signature, a wrong one,
\* a timestamp out of the window, a timestamp that is no integer
OrderInputs ==
    LET auths == {<<>>, Bearer(NotJwt("garbage"))} \cup {Bearer(t) : t \in Issued}
        now == TsHeader(Sec(clock))
        late == TsHeader(Sec(clock) + SkewWindow + 1)
        plain(x, a) == [Base(NotJwt("")) EXCEPT !.rid = x, !.auth = a]
        timed(x, a, ts) == [plain(x, a) EXCEPT !.ts = <<ts>>]
    IN  UNION {
          {plain(x, a),
           Signed(timed(x, a, now), DemoSecret),
           Signed(timed(x, a, now), ClientSecret(1)),
           Signed(timed(x, a, late), DemoSecret),
           [Signed(timed(x, a, now), DemoSecret) EXCEPT !.ts = <<TsNotInt>>]}
          : x \in {<<>>, <<"a">>}, a \in auths}
        \cup {Bare(HealthPath)}

NextOrder ==
    \/ \E g \in Registrations : Register(g[1], g[2])
    \/ \E e \in Emails, id \in 1..MaxClients : Login(e, ApiKey(id))
    \/ \E i \in OrderInputs : Receive(1, i)
    \/ Receive(2, Holder)
    \/ \E r \in {1, 2} : SetNx(r)
    \/ \E r \in {1, 2} : SetNxRaises(r)
    \/ \E r \in {1, 2} : Expire(r)
    \/ \E r \in {1, 2} : ExpireRaises(r)
    \/ VerifyBody(1)
    \/ \E r \in {1, 2} : CallNext(r)

SpecOrder == Init /\ [][NextOrder]_vars

---------------------------------------------------------------------------
(* A request and its retry: request 1 is sent, and once it is answered     *)
(* request 2 is sent with the same request id and a token                  *)

\* the first attempt: without a header, with a string that is no token,
\* with a token and a signature under another secret or a timestamp out of
\* the window, or with nothing to object to
FirstInputs ==
    LET timed(t, d) == [Base(t) EXCEPT !.ts = <<TsHeader(Sec(clock) + d)>>]
    IN  {Holder, Base(NotJwt("garbage"))}
        \cup {Base(t) : t \in Issued}
        \cup {Signed(timed(t, 0), ClientSecret(1)) : t \in Issued}
        \cup {Signed(timed(t, SkewWindow + 1), DemoSecret) : t \in Issued}

\* the retry: the same id, with a token
RetryInputs == {Base(t) : t \in Issued}

NextRetry ==
    \/ \E d \in RaceDeltas : Tick(d, MaxGateTicks)
    \/ \E g \in Registrations : Register(g[1], g[2])
    \/ \E e \in Emails, id \in 1..MaxClients : Login(e, ApiKey(id))
    \/ \E i \in FirstInputs : Receive(1, i)
    \/ req[1].pc = "done" /\ \E i \in RetryInputs : Receive(2, i)
    \/ \E r \in {1, 2} : SetNx(r)
    \/ \E r \in {1, 2} : SetNxRaises(r)
    \/ \E r \in {1, 2} : Expire(r)
    \/ \E r \in {1, 2} : ExpireRaises(r)
    \/ VerifyBody(1)
    \/ \E r \in {1, 2} : CallNext(r)

SpecRetry == Init /\ [][NextRetry]_vars

---------------------------------------------------------------------------
(* C21 *)

\* the checks of dispatch, in the order of its code
Order == <<"path", "rid", "replay", "bearer", "token", "skew", "body", "hmac">>

\* the answers a check gives when it fails
DenialsOf(step) ==
    CASE step = "rid" -> {<<400, "X-Request-ID header is required">>}
      [] step = "replay" -> {<<400, "Request ID already used (replay detected)">>}
      [] step = "bearer" -> {<<401, "Authorization header required">>}
      [] step = "token" -> {<<401, "Token has expired">>, <<500, "Internal server error">>}
      [] step = "skew" -> {<<400, "Request timestamp out of allowed window">>,
                           <<500, "Internal server error">>}
      [] step = "hmac" -> {<<401, "Invalid HMAC signature">>}
      [] OTHER -> {}

\* the last check run on the request
LastStep(q) == q.steps[Len(q.steps)]

\* the request carries no usable request id
NoRid(i) == i.rid = <<>> \/ i.rid[1] = ""

\* C21: the checks run in the order path exemption, request id, replay,
\* bearer, HMAC, and a check that fails ends them: a denial is the answer of
\* the last check run; a request without an id is denied with 400 whatever
\* else it lacks; a request that lost the reservation is denied as a replay
\* with no token verified and no body read; a request past the replay check
\* without a bearer header is denied with 401 whatever its HMAC headers; one
\* whose token does not verify is denied by the token check and its body
\* is not read.
C21_ChecksInOrder ==
    \A r \in Reqs :
        LET q == req[r] IN
        q.pc # "idle" =>
            /\ StartsWith(Order, q.steps)
            /\ Denied(q) => <<q.status, q.error>> \in DenialsOf(LastStep(q))
            /\ (Gated(q) /\ NoRid(q.in)) =>
                  /\ DeniedWith(q, 400, "X-Request-ID header is required")
                  /\ q.steps = <<"path", "rid">>
            /\ q.nx = "lost" =>
                  /\ ReplayDenied(q)
                  /\ q.steps = <<"path", "rid", "replay">>
                  /\ q.client_id = <<>>
            /\ (Gated(q) /\ ReplayPassed(q) /\ NoBearer(q.in)) =>
                  /\ DeniedWith(q, 401, "Authorization header required")
                  /\ LastStep(q) = "bearer"
            /\ (Gated(q) /\ ReplayPassed(q) /\ ~NoBearer(q.in) /\ q.client_id = <<>>) =>
                  /\ Denied(q)
                  /\ LastStep(q) = "token"

\* a request that lost the reservation, with a string that is no token and
\* a signature under the wrong secret, was denied as a replay
C21_Witness ==
    /\ ReplayDenied(req[1])
    /\ req[1].in.auth = Bearer(NotJwt("garbage"))
    /\ req[1].in.sig # <<>>
    /\ req[1].steps = <<"path", "rid", "replay">>

\* a request without X-Request-ID and without Authorization got the 400 of
\* the request id check
C21_WitnessNoId ==
    /\ req[1].in.rid = <<>> /\ req[1].in.auth = <<>>
    /\ DeniedWith(req[1], 400, "X-Request-ID header is required")

---------------------------------------------------------------------------
(* C22 *)

\* the keys the backend in use holds
KeysPresent ==
    IF connected THEN {k.key : k \in {x \in redis : Live(x, clock)}} ELSE cache

\* the key is due to go within 60 seconds; the in-process dict keeps no
\* expiry for its keys
ExpiryScheduled(key) ==
    /\ connected
    /\ \E k \in redis : k.key = key /\ k.hasTtl /\ k.expireAt <= clock + Window

\* C22, as claimed: in every state, every key in the replay cache has an
\* expiry of at most 60 seconds ahead scheduled; no key is in the cache
\* without one, whatever happens between the insert and the expiry call.
C22_EveryKeyExpires ==
    \A key \in KeysPresent : ExpiryScheduled(key)

---------------------------------------------------------------------------
(* C23 *)

\* the request carries at most one of X-Signature and X-Timestamp
NotBothHmacHeaders(i) == i.sig = <<>> \/ i.ts = <<>>

\* C23: a request with a request id and a valid bearer token that carries
\* neither X-Signature nor X-Timestamp, or one of the two only, whatever its
\* value, is admitted once past the replay check, under the identity of its
\* token: the timestamp window is not checked, the body is not read and no
\* signature is verified.
C23_HmacOnlyWithBothHeaders ==
    \A r \in Reqs :
        LET q == req[r] IN
        ( /\ Gated(q) /\ ReplayPassed(q)
          /\ ValidBearer(q)
          /\ NotBothHmacHeaders(q.in) )
        => /\ Admitted(q)
           /\ q.error = ""
           /\ LastStep(q) = "token"
           /\ IdentityOfToken(q)

\* a request with a valid token and an X-Signature that is the digest
\* under another secret, without X-Timestamp, has reached its handler
C23_Witness ==
    \E r \in Reqs :
        LET q == req[r] IN
        /\ Gated(q) /\ ValidBearer(q)
        /\ q.in.ts = <<>> /\ q.in.sig # <<>>
        /\ q.in.sig[1].hex.secret # HmacKey(DemoSecret)
        /\ q.handled = 1

\* a request with a valid token and an X-Timestamp that is no integer,
\* without X-Signature, has reached its handler
C23_WitnessTimestampOnly ==
    \E r \in Reqs :
        LET q == req[r] IN
        /\ Gated(q) /\ ValidBearer(q)
        /\ q.in.sig = <<>> /\ q.in.ts = <<TsNotInt>>
        /\ q.handled = 1

---------------------------------------------------------------------------
(* The route handlers login_client and get_profile, with what they answer. *)
(* Both paths are exempted by the gate, so what a handler is given is what *)
(* the client sent.                                                        *)

\* pwd_context.verify raises on a secret that holds a zero byte (passlib's
\* bcrypt handler refuses it with NullPasswordError, a ValueError)
PasswordRaises(plain_password) ==
    \E n \in 1..Len(plain_password) : plain_password[n] = NUL

\* TokenResponse(access_token=..., token_type="bearer", expires_in=3600, ...)
TokenResponse(access_token, client) ==
    [access_token |-> access_token, token_type |-> "bearer", expires_in |-> ExpiresIn,
     client_id |-> ToString(client.id), scopes |-> client.scopes]

\* what a handler answers: the status, the message of an error, and the
\* body of the 200 of login (token_response) or of get_profile (profile)
Answer(status_code, detail, token_response, profile) ==
    [status_code |-> status_code, detail |-> detail,
     token_response |-> token_response, profile |-> profile]

\* raise HTTPException(status_code=..., detail=...)
HttpError(status_code, detail) == Answer(status_code, detail, <<>>, <<>>)

\* an exception no handler catches comes out of call_next inside
\* AuthMiddleware.dispatch, whose last except clause answers it
Unhandled == Answer(500, "Internal server error", <<>>, <<>>)

\* login_client; t_exp and t_iat are the two readings of the clock that
\* create_access_token takes
LoginResponse(email, api_key, t_exp, t_iat, jti) ==
    IF ClientsByEmail(email) = {}
    THEN HttpError(401, "Invalid credentials")
    ELSE
    LET client == clients[CHOOSE i \in ClientsByEmail(email) : TRUE]
        token_data == [sub |-> ToString(client.id), scope |-> client.scopes]
        expires_delta == <<LoginExpireHours * 3600>>
    IN  IF PasswordRaises(api_key) THEN Unhandled
        ELSE IF ~VerifyPassword(api_key, client.hashed_api_key)
        THEN HttpError(401, "Invalid credentials")
        ELSE IF client.status # "active"
        THEN HttpError(403, "Client account is not active")
        ELSE Answer(200, "",
                 <<TokenResponse(CreateAccessToken(token_data, SECRET_KEY, expires_delta,
                                                   t_exp, t_iat, jti), client)>>,
                 <<>>)

\* a call of a handler as it is kept in responses: what it was given, when
\* it answered, the clients table it read, and its answer
Call(route, email, api_key, token, at, answer) ==
    [route |-> route, email |-> email, api_key |-> api_key, token |-> token,
     at |-> at, table |-> clients, answer |-> answer]

\* POST /auth/login; elapsed is the time that passes between the two
\* readings of the clock when a token is minted
LoginClient(email, api_key, elapsed) ==
    /\ responses = {}
    /\ LET answer == LoginResponse(email, api_key, clock, clock + elapsed,
                                   Cardinality(tokens) + 1)
           minted == answer.status_code = 200
           client == clients[CHOOSE i \in ClientsByEmail(email) : TRUE]
       IN  /\ IF minted
              THEN Cardinality(tokens) < MaxTokens /\ (elapsed = 0 \/ nticks < MaxTicks)
              ELSE elapsed = 0
           /\ responses' = responses \cup
                 {Call("login", email, api_key, NotJwt(""), clock + elapsed, answer)}
           /\ tokens' = IF minted
                        THEN tokens \cup
                               {[tok |-> answer.token_response[1].access_token,
                                 at |-> clock, ttl |-> <<LoginExpireHours * 3600>>,
                                 data |-> [sub |-> ToString(client.id),
                                           scope |-> client.scopes]]}
                        ELSE tokens
    /\ clock' = clock + elapsed
    /\ nticks' = IF elapsed = 0 THEN nticks ELSE nticks + 1
    /\ redis' = {k \in redis : Live(k, clock + elapsed)}
    /\ UNCHANGED <<connected, cache, clients, access_tokens, verified, calls, req>>

\* db.query(Client).filter(Client.id == client_id).first()
ClientsById(client_id) == {i \in 1..Len(clients) : ToString(clients[i].id) = client_id}

\* get_profile: whatever is raised inside its try, the 404 of its own
\* included, is caught by its except clause and answered with 401
ProfileResponse(token, now) ==
    LET v == VerifyToken(token, SECRET_KEY, now)
    IN  IF v.kind # "return" THEN HttpError(401, "Invalid token")
        ELSE IF ClientsById(v.payload.sub) = {} THEN HttpError(401, "Invalid token")
        ELSE Answer(200, "", <<>>,
                    <<clients[CHOOSE i \in ClientsById(v.payload.sub) : TRUE]>>)

\* GET /auth/profile with "Authorization: Bearer <token>"
GetProfile(token) ==
    /\ responses = {}
    /\ responses' = responses \cup
          {Call("profile", "", <<>>, token, clock, ProfileResponse(token, clock))}
    /\ UNCHANGED <<clock, nticks, connected, redis, cache, clients, access_tokens, tokens,
                   verified, calls, req>>

\* DELETE FROM clients: no code of the program removes a client; the rows
\* are removed from outside
DropClients ==
    /\ clients # <<>>
    /\ clients' = <<>>
    /\ UNCHANGED <<clock, nticks, connected, redis, cache, access_tokens, tokens, verified,
                   calls, responses, req>>

\* the API keys presented: the key of a client, and that key followed by a
\* zero byte
ApiKeys ==
    {ApiKey(id) : id \in 1..MaxClients} \cup {ApiKey(id) \o <<NUL>> : id \in 1..MaxClients}

\* to either side of the end of the hour a login token is good for
LoginDeltas == {1, ExpiresIn * Res - 1}

\* one login in a behaviour, and the token it minted verified as time goes by
NextLogin ==
    \/ \E d \in LoginDeltas : Tick(d, MaxTicks)
    \/ \E g \in Registrations : Register(g[1], g[2])
    \/ \E id \in 1..MaxClients : Suspend(id)
    \/ \E e \in Emails, k \in ApiKeys, elapsed \in {0, 1} : LoginClient(e, k, elapsed)
    \/ \E t \in Issued : CodecVerify(t)

SpecLogin == Init /\ [][NextLogin]_vars

\* one call of get_profile in a behaviour, with a token of a login before it
NextProfile ==
    \/ \E d \in GateDeltas : Tick(d, MaxGateTicks)
    \/ \E g \in Registrations : Register(g[1], g[2])
    \/ \E e \in Emails, id \in 1..MaxClients : Login(e, ApiKey(id))
    \/ DropClients
    \/ \E t \in Issued \cup Forged \cup {NotJwt("garbage")} : GetProfile(t)

SpecProfile == Init /\ [][NextProfile]_vars

---------------------------------------------------------------------------
(* C24 *)

Logins == {c \in responses : c.route = "login"}

\* the call was answered with a token
Minted(c) == c.answer.token_response # <<>>

\* the email of the call matches a row of the clients table it read
KnownEmail(c) == \E i \in 1..Len(c.table) : c.table[i].email = c.email

\* the row of that client
RowOf(c) == c.table[CHOOSE i \in 1..Len(c.table) : c.table[i].email = c.email]

\* the API key of the call is the one register_client issued to that client
RightKey(c) == KnownEmail(c) /\ c.api_key = ApiKey(RowOf(c).id)

\* C24, as claimed: login answers with a token only when the email matches
\* a client, the API key is that client's and the client is active; an
\* unknown email or a wrong API key is answered with 401, invalid
\* credentials, a client that is not active and gave the right key with 403,
\* and neither with a token.
C24_LoginOutcomes ==
    \A c \in Logins :
        /\ Minted(c) => (RightKey(c) /\ RowOf(c).status = "active")
        /\ ~RightKey(c) =>
              c.answer = HttpError(401, "Invalid credentials")
        /\ (RightKey(c) /\ RowOf(c).status # "active") =>
              (c.answer.status_code = 403 /\ ~Minted(c))

\* C24, the token alone: login answers with a token only when the email
\* matches a client, the API key is that client's and the client is active,
\* and then it answers 200 with a token for that client.
C24_TokenOnlyWithCredentials ==
    \A c \in Logins :
        Minted(c) <=> (RightKey(c) /\ RowOf(c).status = "active")

\* a suspended client logged in with its own key and got 403 and no token
C24_WitnessSuspended ==
    \E c \in Logins :
        /\ RightKey(c) /\ RowOf(c).status = "suspended"
        /\ c.answer.status_code = 403 /\ ~Minted(c)

---------------------------------------------------------------------------
(* C25 *)

Profiles == {c \in responses : c.route = "profile"}

\* verify_token returned the payload of the token of the call
TokenVerified(c) == VerifyToken(c.token, SECRET_KEY, c.at).kind = "return"

\* the subject of the token is the id of a row of the clients table read
SubjectKnown(c) == \E i \in 1..Len(c.table) : ToString(c.table[i].id) = c.token.sub

\* C25, as claimed: get_profile with a valid token whose subject matches no
\* client answers 404, client not found; it answers 401, invalid token, only
\* when the verification of the token fails.
C25_UnknownSubjectIs404 ==
    \A c \in Profiles :
        /\ (TokenVerified(c) /\ ~SubjectKnown(c)) =>
              c.answer = HttpError(404, "Client not found")
        /\ c.answer = HttpError(401, "Invalid token") => ~TokenVerified(c)

\* C25, what does hold: get_profile answers 200 with the row of the client
\* exactly when the token verifies and its subject is the id of a client,
\* and 401, invalid token, in every other case.
C25_ProfileOrInvalidToken ==
    \A c \in Profiles :
        IF TokenVerified(c) /\ SubjectKnown(c)
        THEN c.answer.status_code = 200 /\ c.answer.profile[1].email \in Emails
        ELSE c.answer = HttpError(401, "Invalid token")

---------------------------------------------------------------------------
(* C26 *)

\* the request made the reservation and was then denied by the bearer
\* check or the HMAC check
DeniedAfterReserving(q) ==
    /\ Gated(q)
    /\ q.nx = "won"
    /\ Denied(q)
    /\ LastStep(q) \in {"bearer", "token", "skew", "hmac"}

\* r2 came to the replay check with the id of r1 after r1 was denied, and
\* within 60 seconds of the reservation of r1
RetryOf(r1, r2) ==
    /\ r1 # r2
    /\ SameRid(req[r1], req[r2])
    /\ DeniedAfterReserving(req[r1])
    /\ req[r2].nx # ""
    /\ req[r2].nxAt >= req[r1].exAt
    /\ req[r2].nxAt < req[r1].nxAt + Window

\* C26, as claimed: a request that made the reservation and was then denied
\* at the bearer or HMAC step keeps its id: a retry with the same id and
\* valid credentials within the 60 seconds is denied as a replay.
C26_DeniedKeepsReservation ==
    \A r1, r2 \in Reqs :
        (RetryOf(r1, r2) /\ ValidBearer(req[r2])) => ReplayDenied(req[r2])

\* C26, amended: the id of a request denied after reserving stays in the
\* cache for the 60 seconds, and a retry within them is denied as a replay
\* whenever its setnx call returns.
C26_DeniedKeepsReservationIfCacheAnswers ==
    /\ \A r \in Reqs :
          (DeniedAfterReserving(req[r]) /\ clock < req[r].nxAt + Window) =>
              RidKey(req[r].in.rid[1]) \in KeysPresent
    /\ \A r1, r2 \in Reqs :
          (RetryOf(r1, r2) /\ NxReturned(req[r2])) => ReplayDenied(req[r2])

\* a request with a token and a wrong signature made the reservation and
\* was denied with 401; the retry with the same id, the same token and no
\* signature was denied as a replay
C26_Witness ==
    /\ RetryOf(1, 2)
    /\ DeniedWith(req[1], 401, "Invalid HMAC signature")
    /\ ValidBearer(req[2])
    /\ ReplayDenied(req[2])

---------------------------------------------------------------------------
(* C27 *)

\* the expiry of the key is the one the expire call of request w set
ExpirySetBy(k, w) ==
    /\ Gated(req[w])
    /\ req[w].nx = "won" /\ req[w].ex = "set"
    /\ k.key = RidKey(req[w].in.rid[1])
    /\ k.expireAt = ExpireAt(req[w].exAt, ReplayTtl)

\* the request was refused within 60 seconds of the acceptance of a
\* request with its id, or while that one was being accepted
RefusedInsideWindow(r) ==
    \E w \in Reqs :
        /\ w # r
        /\ SameRid(req[w], req[r])
        /\ req[w].nx = "won"
        /\ req[w].ex = "" \/ req[r].nxAt < req[w].exAt + Window

\* C27, as claimed: the expiry of an id is the one set by the request that
\* won the insert, a refused replay leaves it as it is, and no request is
\* refused as a replay later than 60 seconds after the acceptance of the
\* request that holds its id.
C27_ReplayDoesNotExtend ==
    /\ \A k \in redis : k.hasTtl => \E w \in Reqs : ExpirySetBy(k, w)
    /\ \A r \in Reqs : req[r].nx = "lost" => RefusedInsideWindow(r)

\* C27, the expiry alone: the expiry of an id is the one set by the request
\* that won the insert, 60 seconds after its expire call, however many
\* replays of the id were refused since.
C27_ExpirySetByWinner ==
    \A k \in redis : k.hasTtl => \E w \in Reqs : ExpirySetBy(k, w)

\* an id was accepted and given its expiry, a replay of it was refused
\* later, and the expiry is still the one the first request set
C27_WitnessRefused ==
    \E w, r \in Reqs :
        /\ \E k \in redis : k.hasTtl /\ ExpirySetBy(k, w)
        /\ SameRid(req[w], req[r])
        /\ ReplayDenied(req[r])
        /\ req[r].nxAt > req[w].exAt

---------------------------------------------------------------------------
(* C28 *)

\* the request carries X-Signature and an X-Timestamp int() rejects
NonIntegerTimestamp(i) == i.sig # <<>> /\ i.ts # <<>> /\ ~i.ts[1].int

---------------------------------------------------------------------------
(* C29 *)

\* the token of a login that was answered with one
TokenOfLogin(c) == c.answer.token_response[1].access_token

\* C29, as claimed: the expires_in of a login answer is the exp of its token
\* minus its iat, and the token verifies at any time less than expires_in
\* seconds after the answer.
C29_ExpiresInIsLifetime ==
    \A c \in {x \in Logins : Minted(x)} :
        LET tok == TokenOfLogin(c)
            expires_in == c.answer.token_response[1].expires_in
        IN  /\ expires_in = tok.exp - tok.iat
            /\ \A v \in verified :
                  (v.tok = tok /\ v.at >= c.at /\ v.at < c.at + expires_in * Res) =>
                      v.result = Returned(tok)

\* C29, the first half on its own: expires_in is exp minus iat.
C29_ExpiresInIsExpMinusIat ==
    \A c \in {x \in Logins : Minted(x)} :
        c.answer.token_response[1].expires_in = TokenOfLogin(c).exp - TokenOfLogin(c).iat

\* C29, the second half on its own: the token verifies at any time less
\* than expires_in seconds after the answer.
C29_GoodForExpiresIn ==
    \A c \in {x \in Logins : Minted(x)} : \A v \in verified :
        ( /\ v.tok = TokenOfLogin(c)
          /\ v.at >= c.at
          /\ v.at < c.at + c.answer.token_response[1].expires_in * Res )
        => v.result = Returned(TokenOfLogin(c))

\* C29, what does hold with less than a second between the two readings of
\* the clock: exp minus iat is expires_in or one second less, and the token
\* verifies until expires_in seconds after the whole second login began in.
C29_LifetimeWithinASecond ==
    \A c \in {x \in Logins : Minted(x)} :
        LET tok == TokenOfLogin(c)
            expires_in == c.answer.token_response[1].expires_in
        IN  /\ tok.exp - tok.iat \in {expires_in - 1, expires_in}
            /\ \A v \in verified :
                  (v.tok = tok /\ v.at >= c.at /\ v.at < tok.exp * Res) =>
                      v.result = Returned(tok)

====
